---- MODULE Spec2Model ----
(***************************************************************************)
(* Model of the training helpers (modules/tf_helper/tf_utils.py) and of    *)
(* the ResNet builder (training/models.py).                                *)
(*                                                                         *)
(* The repository is single-threaded; every helper is modelled as one      *)
(* action that applies the whole function to the current objects.  The     *)
(* components are independent, each with its own specification(s):         *)
(*   SpecCkp     CheckpointAfterEpoch driven by a Keras training loop      *)
(*   SpecSetAll  set_all_weights_from_model                                *)
(*   SpecClone   clone_model and clones of clones                          *)
(*   SpecReset   save_model and reset_weights_to_checkpoint                *)
(*   SpecClip    clip_many                                                 *)
(*   SpecOptim   save_optimizer, update_optimizer, build_optimizer         *)
(*   SpecResNet  ResNetStiff, one step per residual block                  *)
(* A specification holds the variables of the other components at their    *)
(* initial value.                                                          *)
(***************************************************************************)
EXTENDS Integers, Sequences, FiniteSets, TLC

VARIABLES
    \* ---- CheckpointAfterEpoch and the training loop that drives it
    epoch2path,         \* self.epoch2path: epoch -> path (a dict)
    epoch2path_optim,   \* self.epoch2path_optim
    created_model_ckp,  \* self.created_model_ckp
    created_optim_ckp,  \* self.created_optim_ckp
    epochs,             \* E of the current run (fit(epochs=E))
    epoch,              \* the epoch whose end is reported next (0-based)
    run,                \* "idle" | "running" | "done" | "raised"
    runs,               \* number of training runs started on this callback
    save_calls,         \* saves triggered in the current run: [kind, epoch, path]
    fs_writes,          \* writes that completed, in order: [kind, path]
    \* ---- weight utilities
    model,              \* target model: [layers, weights]
    source_model,       \* a second model
    clones,             \* clones[1] = clone_model(model), clones[i+1] = clone_model(clones[i])
    origin,             \* weights of `model` when clones[1] was made
    ckp_file,           \* weight values stored by save_model, or NoFile
    wlast,              \* the last weight operation: its inputs and outputs
    \* ---- clip_many
    values,             \* the tf variables handed to clip_many
    returned,           \* the list the last call returned (NoList for None)
    clip_hist,          \* the last two calls of clip_many
    \* ---- optimizer persistence
    optimizer,          \* optimizer.get_weights(): sequence of [shape, value]
    optim_files,        \* path -> pickled weights list, or NoFile
    olast,              \* the last optimizer operation
    \* ---- ResNetStiff
    cfg,                \* the arguments of the call
    pc,                 \* position in the builder
    features,           \* the local `features` (rebound by the alias branch)
    blocks_in_group,    \* the local BLOCKS_IN_GROUP
    flow,               \* shape of the current tensor [h, w, c]
    blocks              \* the residual blocks entered so far

ckpVars == <<epoch2path, epoch2path_optim, created_model_ckp, created_optim_ckp,
             epochs, epoch, run, runs, save_calls, fs_writes>>
weightVars == <<model, source_model, clones, origin, ckp_file, wlast>>
clipVars == <<values, returned, clip_hist>>
optimVars == <<optimizer, optim_files, olast>>
resnetVars == <<cfg, pc, features, blocks_in_group, flow, blocks>>
vars == <<ckpVars, weightVars, clipVars, optimVars, resnetVars>>

Min(a, b) == IF a <= b THEN a ELSE b
Max(a, b) == IF a >= b THEN a ELSE b

(***************************************************************************)
(* CheckpointAfterEpoch                                                    *)
(***************************************************************************)
MaxEpochs == 2          \* longest training run
MaxKey == 3             \* largest epoch number used as a key of a mapping
MaxRuns == 2            \* training runs on one callback object

Keys == 0..MaxKey

\* A dict epoch -> path as the training scripts build it: one file per epoch
\* (f"{dir}/{epoch}.h5"), on any subset of the keys.
PathOf(kind, k) == <<kind, k>>
Dicts(kind) == {[k \in ks |-> PathOf(kind, k)] : ks \in SUBSET Keys}

CkpInit ==
    /\ epoch2path \in Dicts("model")
    /\ epoch2path_optim \in Dicts("optim")
    /\ created_model_ckp = <<>>
    /\ created_optim_ckp = <<>>
    /\ epochs = 0
    /\ epoch = 0
    /\ run = "idle"
    /\ runs = 0
    /\ save_calls = <<>>
    /\ fs_writes = <<>>

\* tf.keras Model.fit(epochs=E, callbacks=[cb]): starts a run at epoch 0.
fit(E) ==
    /\ run \in {"idle", "done", "raised"}
    /\ runs < MaxRuns
    /\ runs' = runs + 1
    /\ epochs' = E
    /\ epoch' = 0
    /\ run' = "running"
    /\ save_calls' = <<>>
    /\ UNCHANGED <<epoch2path, epoch2path_optim, created_model_ckp,
                   created_optim_ckp, fs_writes>>

\* Variant: the keys are compared with the epoch that just ended.
NextEpochMut(e) == e
\* next_epoch = epoch + 1
NextEpoch(e) == e + 1

\* Variant: the path is recorded before the save is attempted.
AppendCreatedMut(created, path, completed) == Append(created, path)
\* `save(...); self.created_*.append(path)`: the append runs only when the
\* save returned.
AppendCreated(created, path, completed) ==
    IF completed THEN Append(created, path) ELSE created

\* on_epoch_end(epoch), followed by the training loop's step to the next
\* epoch.  mok / ook: whether save_model / save_optimizer returns (TRUE) or
\* raises (FALSE, e.g. OSError from makedirs or open); an exception leaves the
\* handler at once and ends the run.
on_epoch_end(mok, ook) ==
    /\ run = "running"
    /\ LET next_epoch == NextEpoch(epoch)
           mtrig == next_epoch \in DOMAIN epoch2path
           mdone == mtrig /\ mok
           mraise == mtrig /\ ~mok
           otrig == ~mraise /\ next_epoch \in DOMAIN epoch2path_optim
           odone == otrig /\ ook
           oraise == otrig /\ ~ook
           mcall == IF mtrig
                    THEN <<[kind |-> "model", epoch |-> next_epoch,
                            path |-> epoch2path[next_epoch]]>>
                    ELSE <<>>
           ocall == IF otrig
                    THEN <<[kind |-> "optim", epoch |-> next_epoch,
                            path |-> epoch2path_optim[next_epoch]]>>
                    ELSE <<>>
           mwrite == IF mdone
                     THEN <<[kind |-> "model", path |-> epoch2path[next_epoch]]>>
                     ELSE <<>>
           owrite == IF odone
                     THEN <<[kind |-> "optim", path |-> epoch2path_optim[next_epoch]]>>
                     ELSE <<>>
       IN  /\ (~mtrig => mok) /\ (~otrig => ook)   \* unused inputs are fixed
           /\ save_calls' = save_calls \o mcall \o ocall
           /\ fs_writes' = fs_writes \o mwrite \o owrite
           /\ created_model_ckp' =
                 IF mtrig
                 THEN AppendCreated(created_model_ckp, epoch2path[next_epoch], mdone)
                 ELSE created_model_ckp
           /\ created_optim_ckp' =
                 IF otrig
                 THEN AppendCreated(created_optim_ckp, epoch2path_optim[next_epoch], odone)
                 ELSE created_optim_ckp
           /\ IF mraise \/ oraise
              THEN run' = "raised" /\ epoch' = epoch
              ELSE /\ epoch' = epoch + 1
                   /\ run' = IF epoch + 1 = epochs THEN "done" ELSE "running"
    /\ UNCHANGED <<epoch2path, epoch2path_optim, epochs, runs>>

(***************************************************************************)
(* Weight utilities: set_all_weights_from_model, clone_model,              *)
(* reset_weights_to_checkpoint                                             *)
(***************************************************************************)
MaxClones == 2          \* length of the chain clone_model(clone_model(m))
MaxResets == 2          \* calls of reset_weights_to_checkpoint in one behaviour

\* Python strings are tuples of characters.
s_conv2d == <<"c", "o", "n", "v", "2", "d">>
s_dense == <<"d", "e", "n", "s", "e">>
s_re_lu == <<"r", "e", "_", "l", "u">>
s_kernel == <<"k", "e", "r", "n", "e", "l">>
s_bias == <<"b", "i", "a", "s">>
s_conv == <<"c", "o", "n", "v">>
s_e == <<"e">>
s_empty == <<>>
None == <<"None">>      \* the Python value None where a string is expected

\* Keras names a layer's variable "<layer name>/<variable name>:0".
WeightName(layer, var) == layer \o <<"/">> \o var \o <<":", "0">>
W(layer, var, shape) == [name |-> WeightName(layer, var), shape |-> shape, value |-> 0]

\* Architectures: the layers of a model and its weights in model.weights order.
ArchA ==
    [layers |-> <<s_conv2d, s_dense>>,
     weights |-> <<W(s_conv2d, s_kernel, <<1, 2>>), W(s_conv2d, s_bias, <<2>>),
                   W(s_dense, s_kernel, <<2, 2>>), W(s_dense, s_bias, <<2>>)>>]
\* as ArchA with a wider convolution
ArchB ==
    [layers |-> <<s_conv2d, s_dense>>,
     weights |-> <<W(s_conv2d, s_kernel, <<1, 3>>), W(s_conv2d, s_bias, <<3>>),
                   W(s_dense, s_kernel, <<3, 2>>), W(s_dense, s_bias, <<2>>)>>]
\* a bias-free convolution, an activation layer without weights, a dense layer
ArchC ==
    [layers |-> <<s_conv2d, s_re_lu, s_dense>>,
     weights |-> <<W(s_conv2d, s_kernel, <<1, 2>>),
                   W(s_dense, s_kernel, <<2, 2>>), W(s_dense, s_bias, <<2>>)>>]
Archs == {ArchA, ArchB, ArchC}

Vals == {0, 1}                      \* contents of a weight tensor
ValueVectors(n) == [1..n -> Vals]
\* Values a newly initialised model may get: all 0, all 1, alternating.
FreshVectors(n) == {[i \in 1..n |-> 0], [i \in 1..n |-> 1], [i \in 1..n |-> i % 2]}

\* The model m with its weights set to the values vs.
WithValues(m, vs) ==
    [m EXCEPT !.weights = [i \in 1..Len(m.weights) |-> [m.weights[i] EXCEPT !.value = vs[i]]]]
ValuesOf(ws) == [i \in 1..Len(ws) |-> ws[i].value]
Models == UNION {{WithValues(a, vs) : vs \in ValueVectors(Len(a.weights))} : a \in Archs}

NoFile == [exists |-> FALSE, data |-> <<>>]
NoOp == [op |-> "none", pre |-> <<>>, src |-> <<>>, warnings |-> <<>>,
         skipped |-> 0, kw |-> None, n |-> 0]

WeightInit ==
    /\ model \in Models
    /\ source_model \in Models
    /\ clones = <<>>
    /\ origin = <<>>
    /\ ckp_file = NoFile
    /\ wlast = NoOp

\* w1.shape == w2.shape
ShapesMatch(w1, w2) == w1.shape = w2.shape

\* The positions 1..n that satisfy Test, in order.
Positions(n, Test(_)) == SelectSeq([i \in 1..n |-> i], Test)

\* Variant: the shape test is inverted, so matching pairs are not assigned.
SetAllInverted(ws, src) ==
    LET n == Min(Len(ws), Len(src))
        Mismatch(i) == ~ShapesMatch(ws[i], src[i])
    IN  [weights |-> [i \in 1..Len(ws) |->
                        IF i <= n /\ ~ShapesMatch(ws[i], src[i])
                        THEN [ws[i] EXCEPT !.value = src[i].value]
                        ELSE ws[i]],
         source |-> src,
         warnings |-> [k \in 1..Len(Positions(n, Mismatch)) |->
                         ws[Positions(n, Mismatch)[k]].name]]
\* Variant: the loop ends at the first mismatched pair.
SetAllBreak(ws, src) ==
    LET n == Min(Len(ws), Len(src))
        Mismatch(i) == ~ShapesMatch(ws[i], src[i])
        bad == Positions(n, Mismatch)
        stop == IF bad = <<>> THEN n + 1 ELSE bad[1]
    IN  [weights |-> [i \in 1..Len(ws) |->
                        IF i < stop /\ i <= n
                        THEN [ws[i] EXCEPT !.value = src[i].value]
                        ELSE ws[i]],
         source |-> src,
         warnings |-> IF bad = <<>> THEN <<>> ELSE <<ws[bad[1]].name>>]
\* set_all_weights_from_model(model, source_model) on the two weight lists:
\* the target's weights afterwards, the source's weights afterwards and the
\* names printed in warnings, in order.  zip stops at the shorter list.
set_all_weights_from_model(ws, src) ==
    LET n == Min(Len(ws), Len(src))
        Mismatch(i) == ~ShapesMatch(ws[i], src[i])
    IN  [weights |-> [i \in 1..Len(ws) |->
                        IF i <= n /\ ShapesMatch(ws[i], src[i])
                        THEN [ws[i] EXCEPT !.value = src[i].value]
                        ELSE ws[i]],
         source |-> src,
         warnings |-> [k \in 1..Len(Positions(n, Mismatch)) |->
                         ws[Positions(n, Mismatch)[k]].name]]

\* tf.keras.models.clone_model(m): the same layers and weight shapes, with
\* newly initialised weight values (fresh).
KerasClone(m, fresh) == WithValues(m, fresh)

\* clone_model(m): the new model and the source afterwards.
clone_model(m, fresh) ==
    LET new_model == KerasClone(m, fresh)
        r == set_all_weights_from_model(new_model.weights, m.weights)
    IN  [new_model |-> [new_model EXCEPT !.weights = r.weights],
         source |-> [m EXCEPT !.weights = r.source],
         warnings |-> r.warnings]

\* `skip_keyword in name` for Python strings.
Contains(s, kw) ==
    \E i \in 0..(Len(s) - Len(kw)) : SubSeq(s, i + 1, i + Len(kw)) = kw

\* `skip_keyword and skip_keyword in w1.name`: None and "" are falsy.
SkipsWeight(kw, name) == kw # None /\ kw # s_empty /\ Contains(name, kw)

\* reset_weights_to_checkpoint(model, ckp, skip_keyword): temp holds the
\* weights of the clone after load_weights.  Returns the new weights and the
\* count `skipped`.
reset_weights_to_checkpoint(ws, temp, kw) ==
    LET Skipped(i) == SkipsWeight(kw, ws[i].name)
        n == Min(Len(ws), Len(temp))
    IN  [weights |-> [i \in 1..Len(ws) |->
                        IF i <= n /\ ~Skipped(i)
                        THEN [ws[i] EXCEPT !.value = temp[i].value]
                        ELSE ws[i]],
         skipped |-> Len(Positions(n, Skipped))]

Keywords == {None, s_empty, s_conv, s_dense, s_kernel, s_bias, s_re_lu, s_e}

\* Action: set_all_weights_from_model(model, source_model)
SetAllWeights ==
    /\ LET r == set_all_weights_from_model(model.weights, source_model.weights)
       IN  /\ model' = [model EXCEPT !.weights = r.weights]
           /\ source_model' = [source_model EXCEPT !.weights = r.source]
           /\ wlast' = [NoOp EXCEPT !.op = "set_all", !.pre = model.weights,
                                    !.src = source_model.weights,
                                    !.warnings = r.warnings]
    /\ UNCHANGED <<clones, origin, ckp_file>>

\* Action: c = clone_model(model), the first clone of a chain
CloneModel ==
    /\ \E fresh \in FreshVectors(Len(model.weights)) :
         LET r == clone_model(model, fresh)
         IN  /\ clones' = <<r.new_model>>
             /\ model' = r.source
             /\ origin' = model.weights
             /\ wlast' = [NoOp EXCEPT !.op = "clone", !.pre = model.weights,
                                      !.src = KerasClone(model, fresh).weights,
                                      !.warnings = r.warnings]
    /\ UNCHANGED <<source_model, ckp_file>>

\* Action: clone_model applied to the latest clone
CloneClone ==
    /\ clones # <<>>
    /\ Len(clones) < MaxClones
    /\ LET last == clones[Len(clones)]
       IN  \E fresh \in FreshVectors(Len(last.weights)) :
             LET r == clone_model(last, fresh)
             IN  /\ clones' = Append([clones EXCEPT ![Len(clones)] = r.source],
                                     r.new_model)
                 /\ wlast' = [NoOp EXCEPT !.op = "clone", !.pre = last.weights,
                                          !.src = KerasClone(last, fresh).weights,
                                          !.warnings = r.warnings]
    /\ UNCHANGED <<model, source_model, origin, ckp_file>>

\* Action: save_model(model, path): model.save_weights writes the values.
SaveModel ==
    /\ ckp_file' = [exists |-> TRUE, data |-> ValuesOf(model.weights)]
    /\ wlast' = [NoOp EXCEPT !.op = "save", !.pre = model.weights, !.n = wlast.n]
    /\ UNCHANGED <<model, source_model, clones, origin>>

\* Action: reset_weights_to_checkpoint(model, ckp, skip_keyword).  With a
\* checkpoint the clone is loaded from the file; without one it keeps its
\* newly initialised values.
ResetWeights(use_ckp, kw) ==
    /\ wlast.n < MaxResets
    /\ use_ckp => ckp_file.exists
    /\ \E fresh \in FreshVectors(Len(model.weights)) \cup {ckp_file.data} :
         /\ use_ckp <=> fresh = ckp_file.data
         /\ LET temp == KerasClone(model, fresh).weights
                r == reset_weights_to_checkpoint(model.weights, temp, kw)
            IN  /\ model' = [model EXCEPT !.weights = r.weights]
                /\ wlast' = [NoOp EXCEPT !.op = "reset", !.pre = model.weights,
                                         !.src = temp, !.skipped = r.skipped,
                                         !.kw = kw, !.n = wlast.n + 1]
    /\ UNCHANGED <<source_model, clones, origin, ckp_file>>

(***************************************************************************)
(* clip_many                                                               *)
(***************************************************************************)
MaxLen == 2             \* longest list handed to clip_many

Elems == {-3, 0, 1, 3}              \* tensor contents (one number per tensor)
NoneNum == [given |-> FALSE, v |-> 0]              \* clip_from=None
Num(n) == [given |-> TRUE, v |-> n]
ClipAts == {-1, 0, 2}
ClipFroms == {NoneNum, Num(-2), Num(1), Num(3)}
Lists == UNION {[1..n -> Elems] : n \in 1..MaxLen}
NoList == [given |-> FALSE, list |-> <<>>]         \* the call returned None

ClipInit ==
    /\ values \in Lists
    /\ returned = NoList
    /\ clip_hist = <<>>

\* if clip_from is None: clip_from = -clip_at
LowBound(clip_at, clip_from) == IF clip_from.given THEN clip_from.v ELSE -clip_at

\* Variant: only the upper bound is applied.
ClipNoLower(v, lo, hi) == Min(v, hi)
\* tf.clip_by_value(v, clip_value_min, clip_value_max)
\*   = maximum(minimum(v, clip_value_max), clip_value_min)
clip_by_value(v, lo, hi) == Max(Min(v, hi), lo)

\* Variant: the in-place branch adds the clipped value (assign_add).
ClipManyAssignAdd(vs, clip_at, clip_from, inplace) ==
    LET lo == LowBound(clip_at, clip_from)
        r == [i \in 1..Len(vs) |-> clip_by_value(vs[i], lo, clip_at)]
    IN  IF inplace
        THEN [inputs |-> [i \in 1..Len(vs) |-> vs[i] + r[i]], returned |-> NoList]
        ELSE [inputs |-> vs, returned |-> [given |-> TRUE, list |-> r]]
\* clip_many(values, clip_at, clip_from, inplace): the contents of the inputs
\* afterwards and the value returned.
clip_many(vs, clip_at, clip_from, inplace) ==
    LET lo == LowBound(clip_at, clip_from)
        r == [i \in 1..Len(vs) |-> clip_by_value(vs[i], lo, clip_at)]
    IN  IF inplace
        THEN [inputs |-> r, returned |-> NoList]
        ELSE [inputs |-> vs, returned |-> [given |-> TRUE, list |-> r]]

\* The record of one call kept in clip_hist.
ClipCall(target, vs, clip_at, clip_from, inplace, r) ==
    [target |-> target, input |-> vs, clip_at |-> clip_at, clip_from |-> clip_from,
     inplace |-> inplace, after |-> r.inputs,
     output |-> IF inplace THEN r.inputs ELSE r.returned.list]

\* clip_hist keeps a first application and a second one.
ClipCallsLeft == Len(clip_hist) < 2

\* Action: clip_many(values, ...) on the variables
ClipVariables(clip_at, clip_from, inplace) ==
    /\ ClipCallsLeft
    /\ LET r == clip_many(values, clip_at, clip_from, inplace)
       IN  /\ values' = r.inputs
           /\ returned' = r.returned
           /\ clip_hist' = Append(clip_hist,
                                  ClipCall("values", values, clip_at, clip_from, inplace, r))

\* Action: clip_many(r, ..., inplace=False) on the list a call returned
ClipReturned(clip_at, clip_from) ==
    /\ ClipCallsLeft
    /\ returned.given
    /\ LET r == clip_many(returned.list, clip_at, clip_from, FALSE)
       IN  /\ returned' = r.returned
           /\ clip_hist' = Append(clip_hist,
                                  ClipCall("returned", returned.list, clip_at, clip_from, FALSE, r))
           /\ UNCHANGED values

(***************************************************************************)
(* Optimizer persistence: save_optimizer, update_optimizer, build_optimizer*)
(***************************************************************************)
MaxIter == 2            \* optimizer steps taken in one behaviour

StatePaths == {"s_a", "s_b"}

\* The variables an optimizer creates for a model: `iter` and one slot per
\* trainable weight.  Three models of different widths / depths.
OptVar(name, shape) == [name |-> name, shape |-> shape, value |-> 0]
SlotsA == <<OptVar("iter", <<>>), OptVar("m0", <<2>>), OptVar("m1", <<2, 2>>)>>
SlotsB == <<OptVar("iter", <<>>), OptVar("m0", <<3>>), OptVar("m1", <<3, 2>>)>>
SlotsC == <<OptVar("iter", <<>>), OptVar("m0", <<2>>)>>
SlotSets == {SlotsA, SlotsB, SlotsC}

NoState == [exists |-> FALSE, data |-> <<>>]
NoOptOp == [op |-> "none", raised |-> FALSE, warned |-> FALSE,
            before |-> <<>>, stored |-> <<>>]

OptimInit ==
    /\ optimizer = <<>>                 \* a new optimizer has no variables
    /\ optim_files = [p \in StatePaths |-> NoState]
    /\ olast = NoOptOp

\* optimizer.get_weights(): the arrays, without the variables they came from
get_weights(params) ==
    [i \in 1..Len(params) |-> [shape |-> params[i].shape, value |-> params[i].value]]

\* optimizer.set_weights(weights) of Keras: ValueError when the lengths
\* differ or a shape differs; nothing is assigned in that case.
set_weights(params, weights) ==
    IF Len(params) # Len(weights)
    THEN [raised |-> TRUE, params |-> params]
    ELSE IF \E i \in 1..Len(params) : params[i].shape # weights[i].shape
    THEN [raised |-> TRUE, params |-> params]
    ELSE [raised |-> FALSE,
          params |-> [i \in 1..Len(params) |->
                        [params[i] EXCEPT !.value = weights[i].value]]]

\* Variant: set_weights is called outside a try block.
UpdateNoExcept(params, stored) ==
    LET r == set_weights(params, stored)
    IN  [params |-> r.params, raised |-> r.raised, warned |-> FALSE]
\* update_optimizer(optimizer, path) with `stored` = pickle.load(f):
\* `except ValueError` turns the failure into two printed lines.
update_optimizer(params, stored) ==
    LET r == set_weights(params, stored)
    IN  [params |-> r.params, raised |-> FALSE, warned |-> r.raised]

\* Action: a new optimizer object replaces the current one
NewOptimizer ==
    /\ optimizer # <<>>
    /\ optimizer' = <<>>
    /\ olast' = [NoOptOp EXCEPT !.op = "new"]
    /\ UNCHANGED optim_files

\* Action: build_optimizer(model, optimizer): apply_gradients with zero
\* gradients creates the variables and counts one step.
build_optimizer(slots) ==
    /\ optimizer = <<>>
    /\ optimizer' = [slots EXCEPT ![1].value = 1]
    /\ olast' = [NoOptOp EXCEPT !.op = "build"]
    /\ UNCHANGED optim_files

\* Action: one training step: iterations + 1 and new slot contents
TrainStep(v) ==
    /\ optimizer # <<>>
    /\ optimizer[1].value < MaxIter
    /\ optimizer' = [i \in 1..Len(optimizer) |->
                       [optimizer[i] EXCEPT !.value = IF i = 1 THEN @ + 1 ELSE v]]
    /\ olast' = [NoOptOp EXCEPT !.op = "train"]
    /\ UNCHANGED optim_files

\* Action: save_optimizer(optimizer, path); ok: makedirs / open succeed
save_optimizer(path, ok) ==
    /\ optim_files' = IF ok
                      THEN [optim_files EXCEPT ![path] =
                              [exists |-> TRUE, data |-> get_weights(optimizer)]]
                      ELSE optim_files
    /\ olast' = [NoOptOp EXCEPT !.op = "save", !.raised = ~ok]
    /\ UNCHANGED optimizer

\* Action: update_optimizer(optimizer, path) on a readable state file
UpdateOptimizer(path) ==
    /\ optim_files[path].exists
    /\ LET r == update_optimizer(optimizer, optim_files[path].data)
       IN  /\ optimizer' = r.params
           /\ olast' = [op |-> "update", raised |-> r.raised, warned |-> r.warned,
                        before |-> optimizer, stored |-> optim_files[path].data]
    /\ UNCHANGED optim_files

(***************************************************************************)
(* ResNetStiff                                                             *)
(***************************************************************************)
MaxBlocks == 2          \* largest BLOCKS_IN_GROUP argument

\* A Python value that is an int or a tuple of ints.
PyInt(n) == [isint |-> TRUE, n |-> n, items |-> <<>>]
PyTuple(t) == [isint |-> FALSE, n |-> 0, items |-> t]

NoShape == <<>>         \* input_shape=None, or a tensor that was never built
NoClasses == 0          \* n_classes=None
StemFilters == 16       \* conv(16, 3, strides=1, use_bias=False)
WrnN == 16
WrnK == 8

Datasets == {"cifar", "cifar10", "cifar100", "mnist", "none"}
Aliases == {"none", "WRN-16-8"}
InputShapes == {NoShape, <<15, 15, 3>>, <<8, 12, 1>>}
ClassCounts == {NoClasses, 10}
FeatureChoices ==
    {<<16, 32, 64>>, <<16, 16, 16>>, <<32, 16, 64>>, <<32, 64, 64>>, <<64, 32, 16>>}

Configs ==
    [dataset : Datasets, alias : Aliases, input_shape : InputShapes,
     n_classes : ClassCounts, resnet_version : {1, 2}, features : FeatureChoices,
     BLOCKS_IN_GROUP : 1..MaxBlocks, shortcut_conv_projection : BOOLEAN]

ResNetInit ==
    /\ cfg \in Configs
    /\ pc = "start"
    /\ features = [i \in 1..3 |-> PyInt(cfg.features[i])]
    /\ blocks_in_group = cfg.BLOCKS_IN_GROUP
    /\ flow = NoShape
    /\ blocks = <<>>

\* ceil(a / b) for b > 0
CeilDiv(a, b) == (a + b - 1) \div b

\* The dataset branch: input_shape afterwards (NoShape when an assert fails).
DatasetShape(c) ==
    IF c.dataset \in {"cifar", "cifar10"} THEN <<32, 32, 3>>
    ELSE IF c.dataset = "cifar100" THEN <<32, 32, 3>>
    ELSE IF c.dataset = "mnist" THEN <<28, 28, 1>>
    ELSE IF c.input_shape # NoShape /\ c.n_classes # NoClasses THEN c.input_shape
    ELSE NoShape

\* if alias == 'WRN-16-8': ... features = (16 * K, 32 * K, 64 * K),
\* The trailing comma makes `features` a 1-tuple holding the triple.
AliasFeatures == <<PyTuple(<<16 * WrnK, 32 * WrnK, 64 * WrnK>>)>>
AliasBlocks == (WrnN - 4) \div 6

\* Output shape of Conv2D(filters, k, strides, padding="same") and of
\* Conv2D(filters, 1, strides) (padding "valid", kernel 1): ceil(h / s).
ConvShape(x, filters, strides) ==
    <<CeilDiv(x[1], strides), CeilDiv(x[2], strides), filters>>

\* shortcut(x, filters, strides): [shape, pad, error]
shortcut(x, filters, strides, projection) ==
    IF ~filters.isint
    THEN [shape |-> NoShape, pad |-> 0, error |-> "TypeError"]
    ELSE IF ~projection
    THEN LET m_filters == filters.n - x[3]
             m_width == x[1] \div strides
             m_height == x[2] \div strides
         IN  IF m_filters < 0
             THEN [shape |-> NoShape, pad |-> m_filters, error |-> "ValueError"]
             ELSE [shape |-> <<Min(x[1], m_width), Min(x[2], m_height), x[3] + m_filters>>,
                   pad |-> m_filters, error |-> "none"]
    ELSE [shape |-> ConvShape(x, filters.n, strides), pad |-> 0, error |-> "none"]

\* a + b on tensors: the shapes must broadcast.
Broadcasts(a, b) == \A i \in 1..3 : a[i] = b[i] \/ a[i] = 1 \/ b[i] = 1
AddShape(a, b) == [i \in 1..3 |-> IF a[i] = 1 THEN b[i] ELSE a[i]]

\* simple_block1 / simple_block2 agree on shapes: the shortcut is built when
\* the channel count or the stride asks for it, then the two convolutions,
\* then the sum.  [flow, shortcut, residual, pad, error]
simple_block(x, filters, strides, projection) ==
    LET needs == (~filters.isint) \/ x[3] # filters.n \/ strides # 1
        sc == IF needs THEN shortcut(x, filters, strides, projection)
              ELSE [shape |-> x, pad |-> 0, error |-> "none"]
        res == IF filters.isint THEN ConvShape(x, filters.n, strides) ELSE NoShape
    IN  IF sc.error # "none"
        THEN [flow |-> NoShape, shortcut |-> sc.shape, residual |-> NoShape,
              pad |-> sc.pad, error |-> sc.error]
        ELSE IF ~Broadcasts(res, sc.shape)
        THEN [flow |-> NoShape, shortcut |-> sc.shape, residual |-> res,
              pad |-> sc.pad, error |-> "ValueError"]
        ELSE [flow |-> AddShape(res, sc.shape), shortcut |-> sc.shape, residual |-> res,
              pad |-> sc.pad, error |-> "none"]

\* Action: the argument handling and the stem: lines 63-89 and 162-165
Configure ==
    /\ pc = "start"
    /\ LET shape == DatasetShape(cfg)
       IN  IF shape = NoShape
           THEN /\ pc' = "rejected"            \* AssertionError
                /\ UNCHANGED <<features, blocks_in_group, flow>>
           ELSE /\ pc' = "blocks"
                /\ features' = IF cfg.alias = "WRN-16-8" THEN AliasFeatures ELSE features
                /\ blocks_in_group' = IF cfg.alias = "WRN-16-8" THEN AliasBlocks
                                      ELSE blocks_in_group
                /\ flow' = ConvShape(shape, StemFilters, 1)
    /\ UNCHANGED <<cfg, blocks>>

\* Position of the next block: its group (1..3) and whether it opens the group.
NextGroup == (Len(blocks) \div blocks_in_group) + 1
OpensGroup == Len(blocks) % blocks_in_group = 0
BlockStrides == IF OpensGroup /\ NextGroup > 1 THEN 2 ELSE 1

\* One call of simple_block1 / simple_block2 with filters=features[group-1].
BuildBlock(version) ==
    /\ pc = "blocks"
    /\ cfg.resnet_version = version
    /\ Len(blocks) < 3 * blocks_in_group
    /\ IF NextGroup > Len(features)
       THEN /\ pc' = "failed"                  \* IndexError: features[1]
            /\ UNCHANGED <<flow, blocks>>
       ELSE LET filters == features[NextGroup]
                r == simple_block(flow, filters, BlockStrides,
                                  cfg.shortcut_conv_projection)
            IN  /\ blocks' = Append(blocks,
                       [group |-> NextGroup, filters |-> filters,
                        strides |-> BlockStrides, input |-> flow,
                        shortcut |-> r.shortcut, residual |-> r.residual,
                        pad |-> r.pad, error |-> r.error])
                /\ flow' = r.flow
                /\ pc' = IF r.error = "none" THEN "blocks" ELSE "failed"
    /\ UNCHANGED <<cfg, features, blocks_in_group>>

\* Action: simple_block2 (resnet_version == 2)
simple_block2 == BuildBlock(2)

\* Action: simple_block1 (resnet_version == 1)
simple_block1 == BuildBlock(1)

\* Action: the classifier head and tf.keras.Model(...)
BuildHead ==
    /\ pc = "blocks"
    /\ Len(blocks) = 3 * blocks_in_group
    /\ pc' = "done"
    /\ UNCHANGED <<cfg, features, blocks_in_group, flow, blocks>>

(***************************************************************************)
(* Properties of CheckpointAfterEpoch                                      *)
(***************************************************************************)
\* Number of saves of `kind` triggered for epoch number k in the current run.
Triggered(kind, k) ==
    Cardinality({i \in 1..Len(save_calls) :
                   save_calls[i].kind = kind /\ save_calls[i].epoch = k})
MappingOf(kind) == IF kind = "model" THEN epoch2path ELSE epoch2path_optim
\* The paths of the completed writes of `kind`, in order.
Written(kind) ==
    LET IsKind(w) == w.kind = kind
        ws == SelectSeq(fs_writes, IsKind)
    IN  [i \in 1..Len(ws) |-> ws[i].path]

\* C1 as stated: in a run that called on_epoch_end for epoch = 0..E-1, every
\* key of epoch2path (epoch2path_optim) triggered exactly one model
\* (optimizer) save, and no save was triggered for a non-key.
C1_EveryKeyOnce ==
    run = "done" =>
        \A kind \in {"model", "optim"} :
            /\ \A k \in DOMAIN MappingOf(kind) : Triggered(kind, k) = 1
            /\ \A k \in Keys \ DOMAIN MappingOf(kind) : Triggered(kind, k) = 0

\* C1 amended: a save is only ever triggered for a key of its mapping and with
\* that key's path; and in a run that called on_epoch_end for epoch = 0..E-1,
\* a key k triggered exactly one save when 1 <= k <= E and none otherwise.
C1_KeysInRangeOnce ==
    /\ \A i \in 1..Len(save_calls) :
          /\ save_calls[i].epoch \in DOMAIN MappingOf(save_calls[i].kind)
          /\ save_calls[i].path = MappingOf(save_calls[i].kind)[save_calls[i].epoch]
    /\ run = "done" =>
          \A kind \in {"model", "optim"} :
              \A k \in Keys :
                  Triggered(kind, k) =
                      IF k \in DOMAIN MappingOf(kind) /\ 1 <= k /\ k <= epochs
                      THEN 1 ELSE 0

\* A finished run whose mappings hold keys inside and outside 1..E.
C1_Witness ==
    /\ run = "done"
    /\ \E k \in DOMAIN epoch2path : 1 <= k /\ k <= epochs /\ Triggered("model", k) = 1
    /\ \E k \in DOMAIN epoch2path_optim : 1 <= k /\ k <= epochs /\ Triggered("optim", k) = 1
    /\ 0 \in DOMAIN epoch2path
    /\ \E k \in DOMAIN epoch2path_optim : k > epochs

\* C2: created_model_ckp is the list of paths whose save_model completed, in
\* order, and created_optim_ckp the list of paths whose save_optimizer
\* completed; a save that raised adds nothing, and neither list holds an entry
\* of the other kind.
C2_CreatedAreCompleted ==
    /\ created_model_ckp = Written("model")
    /\ created_optim_ckp = Written("optim")

\* Both lists are non-empty and a model save and an optimizer save raised
\* after the callback had recorded earlier checkpoints.
C2_Witness ==
    /\ Len(created_model_ckp) >= 2
    /\ Len(created_optim_ckp) >= 1
    /\ Len(created_model_ckp) # Len(created_optim_ckp)
    /\ run = "raised"
    /\ runs = 2

(***************************************************************************)
(* Properties of the weight utilities                                      *)
(***************************************************************************)
\* C3: reset_weights_to_checkpoint returns the number of layers of the model
\* whose name contains skip_keyword, and 0 when skip_keyword is None or "".
C3_SkippedCountsLayers ==
    wlast.op = "reset" =>
        wlast.skipped =
            IF wlast.kw \in {None, s_empty} THEN 0
            ELSE Cardinality({i \in 1..Len(model.layers) :
                                Contains(model.layers[i], wlast.kw)})

\* C6: every model of the chain clone_model(m), clone_model(clone_model(m))
\* has the weights of m, position by position, and cloning leaves its source
\* (m, and the first clone when it is cloned) as it was.
C6_ClonesEqualOriginal ==
    clones # <<>> =>
        /\ model.weights = origin
        /\ \A i \in 1..Len(clones) : clones[i].weights = origin

\* A clone of a clone was made and the newly initialised weights of the second
\* clone differed from the original before the copy.
C6_Witness ==
    /\ Len(clones) = 2
    /\ wlast.op = "clone"
    /\ \E i \in 1..Len(origin) : wlast.src[i].value # origin[i].value
    /\ \E i, j \in 1..Len(origin) : origin[i].value # origin[j].value

\* C7: set_all_weights_from_model(model, source_model) returns normally; at
\* each position both models have, a target weight whose shape differs from
\* the source's is unchanged and its name is printed in one warning, and every
\* other one holds the source's value, whatever mismatches precede it; the
\* source is untouched.
C7_MismatchSkippedRestCopied ==
    wlast.op = "set_all" =>
        LET pre == wlast.pre
            src == wlast.src
            n == Min(Len(pre), Len(src))
            now == model.weights
            Warned(name) == Cardinality({k \in 1..Len(wlast.warnings) :
                                           wlast.warnings[k] = name})
        IN  /\ Len(now) = Len(pre)
            /\ source_model.weights = src
            /\ \A i \in 1..Len(pre) :
                  IF i <= n /\ pre[i].shape = src[i].shape
                  THEN /\ now[i] = [pre[i] EXCEPT !.value = src[i].value]
                       /\ Warned(pre[i].name) = 0
                  ELSE /\ now[i] = pre[i]
                       /\ Warned(pre[i].name) = IF i <= n THEN 1 ELSE 0

\* A mismatched pair is followed by a matching pair whose value was copied.
C7_Witness ==
    /\ wlast.op = "set_all"
    /\ \E i, j \in 1..Min(Len(wlast.pre), Len(wlast.src)) :
          /\ i < j
          /\ wlast.pre[i].shape # wlast.src[i].shape
          /\ wlast.pre[j].shape = wlast.src[j].shape
          /\ wlast.pre[j].value # wlast.src[j].value
          /\ model.weights[j].value = wlast.src[j].value
          /\ Len(wlast.warnings) >= 2

(***************************************************************************)
(* Properties of clip_many                                                 *)
(***************************************************************************)
LastClip == clip_hist[Len(clip_hist)]
\* The interval the caller asked for: high = clip_at, low = clip_from, or
\* -clip_at when clip_from is None.
LowOf(c) == IF c.clip_from.given THEN c.clip_from.v ELSE 0 - c.clip_at
HighOf(c) == c.clip_at
AllWithin(list, lo, hi) == \A i \in 1..Len(list) : lo <= list[i] /\ list[i] <= hi
\* What a call leaves behind apart from the clipped numbers: one output per
\* input; with inplace=False the inputs keep their contents and the list is
\* returned; with inplace=True the variables hold the output and None is
\* returned.
ClipPlacement(c) ==
    /\ Len(c.output) = Len(c.input)
    /\ c.target = "values" => values = c.after
    /\ IF c.inplace
       THEN c.after = c.output /\ returned = NoList
       ELSE c.after = c.input /\ returned = [given |-> TRUE, list |-> c.output]

\* C4 as stated: for every pair of bounds each element ends up in [low, high].
C4_AllBoundsWithin ==
    clip_hist # <<>> =>
        /\ AllWithin(LastClip.output, LowOf(LastClip), HighOf(LastClip))
        /\ ClipPlacement(LastClip)

\* C4 amended: when low <= high each element ends up in [low, high], returned
\* (inplace=False, inputs unchanged) or held by the input variables
\* (inplace=True).
C4_OrderedBoundsWithin ==
    clip_hist # <<>> =>
        /\ LowOf(LastClip) <= HighOf(LastClip) =>
              AllWithin(LastClip.output, LowOf(LastClip), HighOf(LastClip))
        /\ ClipPlacement(LastClip)

\* An in-place call with low <= high whose input had an element above high and
\* one below low.
C4_Witness ==
    /\ clip_hist # <<>>
    /\ LastClip.inplace
    /\ LowOf(LastClip) <= HighOf(LastClip)
    /\ \E i, j \in 1..Len(LastClip.input) :
          /\ LastClip.input[i] > HighOf(LastClip)
          /\ LastClip.input[j] < LowOf(LastClip)

\* C5: a second application with the same bounds to the result of a first
\* one (the variables clipped in place, or the returned list) gives values
\* equal to that result, and leaves the variables it was applied to as they
\* were.
C5_ClipIdempotent ==
    Len(clip_hist) = 2 =>
        LET a == clip_hist[1]
            b == clip_hist[2]
        IN  (/\ LowOf(b) = LowOf(a)
             /\ HighOf(b) = HighOf(a)
             /\ b.input = a.output)
            => (b.output = a.output /\ b.after = a.output)

\* A first in-place application that changed the values, then a second one
\* with the same bounds.
C5_Witness ==
    /\ Len(clip_hist) = 2
    /\ LowOf(clip_hist[2]) = LowOf(clip_hist[1])
    /\ HighOf(clip_hist[2]) = HighOf(clip_hist[1])
    /\ clip_hist[1].inplace /\ clip_hist[2].inplace
    /\ clip_hist[2].input = clip_hist[1].output
    /\ clip_hist[1].output # clip_hist[1].input
    /\ values = clip_hist[1].output

(***************************************************************************)
(* Properties of the optimizer persistence                                 *)
(***************************************************************************)
\* The stored list fits the optimizer: as many arrays as the optimizer has
\* variables, each of its variable's shape.
Fits(params, stored) ==
    /\ Len(params) = Len(stored)
    /\ \A i \in 1..Len(params) : params[i].shape = stored[i].shape

\* C8: update_optimizer on a readable file never raises; when the stored
\* state does not fit it prints the warning and leaves the optimizer as it
\* was, and when it fits the optimizer holds the stored state afterwards.
C8_UpdateNeverRaises ==
    olast.op = "update" =>
        /\ ~olast.raised
        /\ IF Fits(olast.before, olast.stored)
           THEN /\ ~olast.warned
                /\ get_weights(optimizer) = olast.stored
                /\ \A i \in 1..Len(optimizer) : optimizer[i].name = olast.before[i].name
           ELSE /\ olast.warned
                /\ optimizer = olast.before

\* A state saved from one built optimizer is loaded into an optimizer with
\* as many variables of other shapes.
C8_Witness ==
    /\ olast.op = "update"
    /\ olast.warned
    /\ Len(olast.before) = Len(olast.stored)
    /\ Len(olast.stored) > 0
    /\ ~Fits(olast.before, olast.stored)

(***************************************************************************)
(* Properties of ResNetStiff                                               *)
(***************************************************************************)
\* What the caller asked for: the alias stands for 2 blocks per group and the
\* widths (128, 256, 512).
WantedBlocks == IF cfg.alias = "WRN-16-8" THEN AliasBlocks ELSE cfg.BLOCKS_IN_GROUP
WantedWidths ==
    IF cfg.alias = "WRN-16-8" THEN <<16 * WrnK, 32 * WrnK, 64 * WrnK>> ELSE cfg.features

\* C9: for every accepted configuration the builder completes, with three
\* groups of BLOCKS_IN_GROUP blocks of widths features[0], features[1],
\* features[2], stride 1 in the first group and stride 2 only in the first
\* block of the second and of the third group.
C9_BuilderCompletes ==
    /\ pc # "failed"
    /\ pc = "done" =>
          /\ Len(blocks) = 3 * WantedBlocks
          /\ \A i \in 1..Len(blocks) :
                LET g == ((i - 1) \div WantedBlocks) + 1
                    first == (i - 1) % WantedBlocks = 0
                IN  /\ blocks[i].group = g
                    /\ blocks[i].residual[3] = WantedWidths[g]
                    /\ blocks[i].strides = IF first /\ g > 1 THEN 2 ELSE 1

\* C10: in every residual block the shortcut and the residual branch have the
\* same height, width and channel count where they are added, and the
\* zero-padding amount filters - input_channels is not negative.
C10_ShortcutMatchesResidual ==
    \A i \in 1..Len(blocks) :
        blocks[i].filters.isint =>
            /\ blocks[i].pad >= 0
            /\ blocks[i].shortcut = blocks[i].residual

(***************************************************************************)
(* Specifications                                                          *)
(***************************************************************************)
CkpIdle ==
    /\ epoch2path = <<>> /\ epoch2path_optim = <<>>
    /\ created_model_ckp = <<>> /\ created_optim_ckp = <<>>
    /\ epochs = 0 /\ epoch = 0 /\ run = "idle" /\ runs = 0
    /\ save_calls = <<>> /\ fs_writes = <<>>
WeightIdle ==
    /\ model = ArchA /\ source_model = ArchA /\ clones = <<>> /\ origin = <<>>
    /\ ckp_file = NoFile /\ wlast = NoOp
ClipIdle == values = <<>> /\ returned = NoList /\ clip_hist = <<>>
OptimIdle == OptimInit
DefaultConfig ==
    [dataset |-> "none", alias |-> "none", input_shape |-> NoShape,
     n_classes |-> NoClasses, resnet_version |-> 2, features |-> <<16, 32, 64>>,
     BLOCKS_IN_GROUP |-> 1, shortcut_conv_projection |-> TRUE]
ResNetIdle ==
    /\ cfg = DefaultConfig
    /\ pc = "start" /\ features = <<>> /\ blocks_in_group = 1
    /\ flow = NoShape /\ blocks = <<>>

InitCkp == CkpInit /\ WeightIdle /\ ClipIdle /\ OptimIdle /\ ResNetIdle
InitOneModel ==
    /\ WeightInit /\ source_model = ArchA
    /\ CkpIdle /\ ClipIdle /\ OptimIdle /\ ResNetIdle
InitWeights == WeightInit /\ CkpIdle /\ ClipIdle /\ OptimIdle /\ ResNetIdle
InitClip == ClipInit /\ CkpIdle /\ WeightIdle /\ OptimIdle /\ ResNetIdle
InitOptim == OptimInit /\ CkpIdle /\ WeightIdle /\ ClipIdle /\ ResNetIdle
InitResNet == ResNetInit /\ CkpIdle /\ WeightIdle /\ ClipIdle /\ OptimIdle

OnlyCkp == UNCHANGED <<weightVars, clipVars, optimVars, resnetVars>>
OnlyWeights == UNCHANGED <<ckpVars, clipVars, optimVars, resnetVars>>
OnlyClip == UNCHANGED <<ckpVars, weightVars, optimVars, resnetVars>>
OnlyOptim == UNCHANGED <<ckpVars, weightVars, clipVars, resnetVars>>
OnlyResNet == UNCHANGED <<ckpVars, weightVars, clipVars, optimVars>>

NextCkp ==
    \/ \E E \in 1..MaxEpochs : fit(E) /\ OnlyCkp
    \/ \E mok \in BOOLEAN, ook \in BOOLEAN : on_epoch_end(mok, ook) /\ OnlyCkp

NextSetAll == SetAllWeights /\ OnlyWeights

NextClone ==
    \/ CloneModel /\ OnlyWeights
    \/ CloneClone /\ OnlyWeights

NextReset ==
    \/ SaveModel /\ OnlyWeights
    \/ \E use_ckp \in BOOLEAN, kw \in Keywords : ResetWeights(use_ckp, kw) /\ OnlyWeights

NextClip ==
    \/ \E a \in ClipAts, f \in ClipFroms, inplace \in BOOLEAN :
         ClipVariables(a, f, inplace) /\ OnlyClip
    \/ \E a \in ClipAts, f \in ClipFroms : ClipReturned(a, f) /\ OnlyClip

NextOptim ==
    \/ NewOptimizer /\ OnlyOptim
    \/ \E slots \in SlotSets : build_optimizer(slots) /\ OnlyOptim
    \/ \E v \in Vals : TrainStep(v) /\ OnlyOptim
    \/ \E path \in StatePaths, ok \in BOOLEAN : save_optimizer(path, ok) /\ OnlyOptim
    \/ \E path \in StatePaths : UpdateOptimizer(path) /\ OnlyOptim

NextResNet ==
    \/ Configure /\ OnlyResNet
    \/ simple_block2 /\ OnlyResNet
    \/ simple_block1 /\ OnlyResNet
    \/ BuildHead /\ OnlyResNet

SpecCkp == InitCkp /\ [][NextCkp]_vars
SpecSetAll == InitWeights /\ [][NextSetAll]_vars
SpecClone == InitOneModel /\ [][NextClone]_vars
SpecReset == InitOneModel /\ [][NextReset]_vars
SpecClip == InitClip /\ [][NextClip]_vars
SpecOptim == InitOptim /\ [][NextOptim]_vars
SpecResNet == InitResNet /\ [][NextResNet]_vars

====
